---- MODULE Spec2Model ----
(***************************************************************************)
(* Model of the MacroPad firmware in code.py: the profile loading loop,    *)
(* the startup selection, App.switch, and the poll-driven main loop with   *)
(* its instruction interpreter and the hand-off to the Dragon Drop game.   *)
(***************************************************************************)
EXTENDS Integers, Sequences, FiniteSets, TLC

VARIABLES
    pc,             \* position of the single control thread
    dir,            \* the names os.listdir(MACRO_FOLDER) returned
    files,          \* the sorted listing
    fi,             \* index of the next file of the loading loop
    diag,           \* file names for which an ERROR line was printed
    apps,           \* the profile registry
    app_index,      \* current profile index
    last_position,  \* last observed encoder position, None before the first
    position,       \* macropad.encoder, the absolute encoder position
    queue,          \* macropad.keys.events
    down,           \* physical keys currently held down
    cur,            \* the key event being processed, None when there is none
    ip,             \* index of the next item of the sequence being executed
    out,            \* device actions emitted by the handler that ran last
    host,           \* what the host sees held: keys, media code, buttons, tone
    disp,           \* the display: labels, pixels, banner, root group, rotation
    result,         \* what run_game returned last
    moved           \* history: where the encoder was turned since its last poll

vars == <<pc, dir, files, fi, diag, apps, app_index, last_position, position,
          queue, down, cur, ip, out, host, disp, result, moved>>

\* Python's None, and a value that is not None, for the variables that hold
\* either; what run_game returned is a string, "None" before the first return.
None == <<>>
Some(x) == <<x>>
Val(o) == o[1]

\* ---------------------------------------------------------------- bounds
MaxPos == 2         \* the encoder is turned within -MaxPos..MaxPos
MaxQueue == 2       \* key events waiting in macropad.keys.events

\* ------------------------------------------------------- program constants
GAME_KEY == 11
NumSlots == 12

\* The keys whose events the model generates: the first key and GAME_KEY.
EventKeys == {0, GAME_KEY}

\* ------------------------------------------------------ instruction items
KeyCode(c) == [t |-> "int", v |-> c]
Delay(s) == [t |-> "float", v |-> s]
TypeText(s) == [t |-> "str", v |-> s]
MediaCodes(l) == [t |-> "list", v |-> l]
MouseAction(d) == [t |-> "dict", v |-> d]
Unknown == [t |-> "NoneType", v |-> "None"]

\* ------------------------------------------ contents of the macro folder
\* File names are numbers, ordered as files.sort() orders the names.
\* Delays are in tenths of a second.
EmptyBinding == <<0, "", <<>> >>

KeysApp ==
    [name |-> "Keys",
     macros |-> << <<16384, "tap", <<KeyCode(224), KeyCode(-224), TypeText("x")>> >> >>
                \o [i \in 1..10 |-> EmptyBinding]]

MediaApp ==
    [name |-> "Media",
     macros |-> << <<64, "vol", <<MediaCodes(<<KeyCode(7), Delay(1), KeyCode(8)>>)>> >> >>
                \o [i \in 1..10 |-> EmptyBinding]
                \o << <<4194304, "mouse",
                        <<MouseAction([buttons |-> 1, x |-> 2, tone |-> 440]), Delay(1),
                          KeyCode(5), MouseAction([play |-> "a.wav"])>> >> >>]

BadApp ==
    [name |-> "Bad",
     macros |-> << <<1, "bad", <<Unknown, KeyCode(5)>> >> >>]

BlankApp ==
    [name |-> "",
     macros |-> << <<32, "none", <<>> >> >>
                \o [i \in 1..10 |-> EmptyBinding]
                \o << <<32, "quiet",
                        <<MouseAction([buttons |-> -1, wheel |-> 1, tone |-> 0,
                                       play |-> "b.wav"])>> >> >>]

\* kind: what importing the file and building its App does; py: whether the
\* name passes the filter of the loading loop; wellformed: whether the content
\* is a profile whose every instruction is of a kind the interpreter knows.
FileTable ==
    [n \in 1..6 |->
        CASE n = 1 -> [py |-> TRUE,  kind |-> "ok", wellformed |-> TRUE, app |-> KeysApp]
          [] n = 2 -> [py |-> TRUE,  kind |-> "SyntaxError", wellformed |-> FALSE, app |-> "None"]
          [] n = 3 -> [py |-> TRUE,  kind |-> "ok", wellformed |-> TRUE, app |-> MediaApp]
          [] n = 4 -> [py |-> FALSE, kind |-> "ok", wellformed |-> FALSE, app |-> "None"]
          [] n = 5 -> [py |-> TRUE,  kind |-> "ok", wellformed |-> FALSE, app |-> BadApp]
          [] n = 6 -> [py |-> TRUE,  kind |-> "ok", wellformed |-> TRUE, app |-> BlankApp]]

FileNames == DOMAIN FileTable

\* The folders the model starts from: an empty one, one with no file that
\* loads, and three with profiles.
Listings == {{}, {2, 4}, {6}, {1, 2, 3}, {1, 2, 3, 4, 5, 6}}

\* The exceptions the loading loop catches.
Caught == {"SyntaxError", "ImportError", "AttributeError", "KeyError",
           "NameError", "IndexError", "TypeError"}

\* ------------------------------------------------------------- helpers
Min(S) == CHOOSE x \in S : \A y \in S : x <= y

RECURSIVE SortFiles(_)
SortFiles(S) == IF S = {} THEN <<>> ELSE <<Min(S)>> \o SortFiles(S \ {Min(S)})

\* A remainder that truncates towards zero, as the % of C does.
TruncMod(a, n) == IF a >= 0 THEN a % n ELSE -((-a) % n)

\* position % len(apps) of Python: the result has the sign of the divisor.
PyMod(a, n) == a % n

\* len(self.macros)
NumMacros(app) == Len(app.macros)

\* apps[i], i a Python index: a negative one counts from the end of the list
AppAt(i) == IF i < 0 THEN apps[Len(apps) + i + 1] ELSE apps[i + 1]

GameApp == [name |-> "Dragon Drop", macros |-> <<>>]

NoHost == [keys |-> {}, media |-> 0, buttons |-> {}, tone |-> 0]

\* ---------------------------------------------------------- App.switch
SwitchPixel(app, i) == IF i < NumMacros(app) THEN app.macros[i + 1][1] ELSE 0
\* The label of a key not in use left as it was.
SwitchLabelKept(app, i) == IF i < NumMacros(app) THEN app.macros[i + 1][2] ELSE disp.labels[i]

SwitchLabel(app, i) == IF i < NumMacros(app) THEN app.macros[i + 1][2] ELSE ""
SwitchFill(app) == IF app.name # "" THEN 16777215 ELSE 0

SwitchDisp(app, d) ==
    [d EXCEPT !.title = app.name,
              !.fill = SwitchFill(app),
              !.pixels = [i \in 0..(NumSlots - 1) |-> SwitchPixel(app, i)],
              !.labels = [i \in 0..(NumSlots - 1) |-> SwitchLabel(app, i)]]

\* The switch without the release of the mouse buttons.
SwitchActionsKeepMouse ==
    << <<"keyboard.release_all", 0>>, <<"consumer_control.release", 0>>,
       <<"stop_tone", 0>>, <<"pixels.show", 0>>, <<"display.refresh", 0>> >>

SwitchActions ==
    << <<"keyboard.release_all", 0>>, <<"consumer_control.release", 0>>,
       <<"mouse.release_all", 0>>, <<"stop_tone", 0>>,
       <<"pixels.show", 0>>, <<"display.refresh", 0>> >>

\* ------------------------------------------------- the device action sinks
\* The effect of one emitted action on what the host sees held.
Apply(h, a) ==
    CASE a[1] = "keyboard.press" -> [h EXCEPT !.keys = @ \cup {a[2]}]
      [] a[1] = "keyboard.release" -> [h EXCEPT !.keys = @ \ {a[2]}]
      [] a[1] = "keyboard.release_all" -> [h EXCEPT !.keys = {}]
      [] a[1] = "consumer_control.press" -> [h EXCEPT !.media = a[2]]
      [] a[1] = "consumer_control.release" -> [h EXCEPT !.media = 0]
      [] a[1] = "mouse.press" -> [h EXCEPT !.buttons = @ \cup {a[2]}]
      [] a[1] = "mouse.release" -> [h EXCEPT !.buttons = @ \ {a[2]}]
      [] a[1] = "mouse.release_all" -> [h EXCEPT !.buttons = {}]
      [] a[1] = "start_tone" -> [h EXCEPT !.tone = a[2]]
      [] a[1] = "stop_tone" -> [h EXCEPT !.tone = 0]
      [] OTHER -> h

RECURSIVE ApplyAll(_, _)
ApplyAll(h, acts) ==
    IF acts = <<>> THEN h ELSE ApplyAll(Apply(h, Head(acts)), Tail(acts))

\* ------------------------------------------- the instruction interpreter
\* dict.get(k, default) and 'k' in dict
Has(d, k) == k \in DOMAIN d
Get(d, k, default) == IF Has(d, k) THEN d[k] ELSE default

\* A consumer-control code pressed without the release before it.
PressCodeNoRelease(code) ==
    IF code.t = "int" THEN << <<"consumer_control.press", code.v>> >>
    ELSE IF code.t = "float" THEN << <<"time.sleep", code.v>> >>
    ELSE <<>>

\* One code of a list item on the press edge.
PressCode(code) ==
    IF code.t = "int"
    THEN << <<"consumer_control.release", 0>>, <<"consumer_control.press", code.v>> >>
    ELSE IF code.t = "float" THEN << <<"time.sleep", code.v>> >>
    ELSE <<>>

RECURSIVE PressCodes(_)
PressCodes(l) == IF l = <<>> THEN <<>> ELSE PressCode(Head(l)) \o PressCodes(Tail(l))

PressButtons(d) ==
    IF Has(d, "buttons")
    THEN IF d.buttons >= 0 THEN << <<"mouse.press", d.buttons>> >>
         ELSE << <<"mouse.release", -d.buttons>> >>
    ELSE <<>>

PressMove(d) == << <<"mouse.move", <<Get(d, "x", 0), Get(d, "y", 0), Get(d, "wheel", 0)>> >> >>

\* The tone and the file tested one after the other: if for elif.
PressSoundBoth(d) ==
    (IF Has(d, "tone")
     THEN IF d.tone > 0 THEN << <<"stop_tone", 0>>, <<"start_tone", d.tone>> >>
          ELSE << <<"stop_tone", 0>> >>
     ELSE <<>>)
    \o (IF Has(d, "play") THEN << <<"play_file", d.play>> >> ELSE <<>>)

PressSound(d) ==
    IF Has(d, "tone")
    THEN IF d.tone > 0 THEN << <<"stop_tone", 0>>, <<"start_tone", d.tone>> >>
         ELSE << <<"stop_tone", 0>> >>
    ELSE IF Has(d, "play") THEN << <<"play_file", d.play>> >>
    ELSE <<>>

PressMouse(d) == PressButtons(d) \o PressMove(d) \o PressSound(d)

\* The press branch without its test of the sign.
PressKeyCodeUnsigned(c) == << <<"keyboard.press", c>> >>

PressKeyCode(c) ==
    IF c >= 0 THEN << <<"keyboard.press", c>> >> ELSE << <<"keyboard.release", -c>> >>

\* The actions of one item of the sequence on the press edge.
PressItem(item) ==
    CASE item.t = "int" -> PressKeyCode(item.v)
      [] item.t = "float" -> << <<"time.sleep", item.v>> >>
      [] item.t = "str" -> << <<"keyboard_layout.write", item.v>> >>
      [] item.t = "list" -> PressCodes(item.v)
      [] item.t = "dict" -> PressMouse(item.v)
      [] OTHER -> <<>>

\* The release branch without its test of the sign.
ReleaseKeyCodeUnsigned(c) ==
    IF c >= 0 THEN << <<"keyboard.release", c>> >> ELSE << <<"keyboard.release", -c>> >>

ReleaseKeyCode(c) == IF c >= 0 THEN << <<"keyboard.release", c>> >> ELSE <<>>

ReleaseButtons(d) ==
    IF Has(d, "buttons") /\ d.buttons >= 0 THEN << <<"mouse.release", d.buttons>> >> ELSE <<>>

\* The release edge without its case for mouse buttons.
ReleaseItemKeysOnly(item) ==
    CASE item.t = "int" -> ReleaseKeyCode(item.v)
      [] OTHER -> <<>>

\* The release edge stopping the tone of a mouse action as well.
ReleaseItemStopsTone(item) ==
    CASE item.t = "int" -> ReleaseKeyCode(item.v)
      [] item.t = "dict" ->
           ReleaseButtons(item.v)
           \o (IF Has(item.v, "tone") THEN << <<"stop_tone", 0>> >> ELSE <<>>)
      [] OTHER -> <<>>

\* The actions of one item of the sequence on the release edge.
ReleaseItem(item) ==
    CASE item.t = "int" -> ReleaseKeyCode(item.v)
      [] item.t = "dict" -> ReleaseButtons(item.v)
      [] OTHER -> <<>>

\* What the release branch emits after its loop.
ReleaseTail == << <<"consumer_control.release", 0>> >>

\* sequence = apps[app_index].macros[key_number][2]
SequenceOf(i, k) == AppAt(i).macros[k + 1][3]

\* ------------------------------------------------------------- startup
Init ==
    /\ pc = "list"
    /\ dir \in Listings
    /\ files = <<>>
    /\ fi = 1
    /\ diag = <<>>
    /\ apps = <<>>
    /\ app_index = 0
    /\ last_position = None
    /\ position = 0
    /\ queue = <<>>
    /\ down = {}
    /\ cur = None
    /\ ip = 1
    /\ out = <<>>
    /\ host = NoHost
    /\ disp = [title |-> "", fill |-> 16777215,
               pixels |-> [i \in 0..(NumSlots - 1) |-> 0],
               labels |-> [i \in 0..(NumSlots - 1) |-> ""],
               root |-> "menu", rotation |-> 0]
    /\ result = "None"
    /\ moved = "no"

\* files = os.listdir(MACRO_FOLDER); files.sort()
ListFiles ==
    /\ pc = "list"
    /\ files' = SortFiles(dir)
    /\ pc' = "load"
    /\ UNCHANGED <<dir, fi, diag, apps, app_index, last_position, position,
                   queue, down, cur, ip, out, host, disp, result, moved>>

\* filename.endswith('.py') and not filename.startswith('._')
IsMacroFile(f) == FileTable[f].py

\* Whether the import and App(module.app) go through without an exception
\* of the except clause.
Loads(f) == FileTable[f].kind \notin Caught

\* App.__init__
App(appdata) == [name |-> appdata.name, macros |-> appdata.macros]

\* One turn of the loading loop.
LoadFile ==
    /\ pc = "load"
    /\ fi <= Len(files)
    /\ LET f == files[fi] IN
         IF IsMacroFile(f)
         THEN IF Loads(f)
              THEN /\ apps' = Append(apps, App(FileTable[f].app))
                   /\ diag' = diag
              ELSE /\ diag' = Append(diag, f)
                   /\ apps' = apps
         ELSE UNCHANGED <<apps, diag>>
    /\ fi' = fi + 1
    /\ UNCHANGED <<pc, dir, files, app_index, last_position, position,
                   queue, down, cur, ip, out, host, disp, result, moved>>

\* The halt without its endless loop: the message is shown and the startup
\* goes on with an empty registry.
HaltFallsThrough ==
    /\ pc = "load"
    /\ fi > Len(files)
    /\ apps = <<>>
    /\ apps' = <<[name |-> "Dragon Drop", macros |-> <<>>]>>
    /\ disp' = [disp EXCEPT !.title = "Dragon Drop"]
    /\ out' = << <<"display.refresh", 0>> >>
    /\ pc' = "poll_encoder"
    /\ UNCHANGED <<dir, files, fi, diag, app_index, last_position, position,
                   queue, down, cur, ip, host, result, moved>>

\* if not apps: show the message and spin for ever.
Halt ==
    /\ pc = "load"
    /\ fi > Len(files)
    /\ apps = <<>>
    /\ disp' = [disp EXCEPT !.title = "NO MACRO FILES FOUND"]
    /\ out' = << <<"display.refresh", 0>> >>
    /\ pc' = "halted"
    /\ UNCHANGED <<dir, files, fi, diag, apps, app_index, last_position, position,
                   queue, down, cur, ip, host, result, moved>>

\* The startup selecting the entry it has just appended.
StartupSelectsLast ==
    /\ pc = "load"
    /\ fi > Len(files)
    /\ apps # <<>>
    /\ last_position' = None
    /\ apps' = Append(apps, GameApp)
    /\ app_index' = Len(apps') - 1
    /\ disp' = SwitchDisp(apps'[Len(apps')], disp)
    /\ out' = SwitchActions
    /\ host' = ApplyAll(host, SwitchActions)
    /\ pc' = "poll_encoder"
    /\ UNCHANGED <<dir, files, fi, diag, position, queue, down, cur, ip, result, moved>>

\* last_position = None; app_index = 0; append the game; apps[0].switch()
Startup ==
    /\ pc = "load"
    /\ fi > Len(files)
    /\ apps # <<>>
    /\ last_position' = None
    /\ app_index' = 0
    /\ apps' = Append(apps, GameApp)
    /\ disp' = SwitchDisp(apps'[1], disp)
    /\ out' = SwitchActions
    /\ host' = ApplyAll(host, SwitchActions)
    /\ pc' = "poll_encoder"
    /\ UNCHANGED <<dir, files, fi, diag, position, queue, down, cur, ip, result, moved>>

\* ----------------------------------------------------------- main loop
Running == pc \in {"poll_encoder", "poll_keys", "exec", "game"}

\* position = macropad.encoder; if it differs from last_position, switch.
PollEncoder ==
    /\ pc = "poll_encoder"
    /\ IF Some(position) # last_position
       THEN /\ app_index' = PyMod(position, Len(apps))
            /\ disp' = SwitchDisp(AppAt(app_index'), disp)
            /\ out' = SwitchActions
            /\ host' = ApplyAll(host, SwitchActions)
            /\ last_position' = Some(position)
       ELSE /\ out' = <<>>
            /\ UNCHANGED <<app_index, disp, host, last_position>>
    /\ cur' = None
    /\ moved' = "no"
    /\ pc' = "poll_keys"
    /\ UNCHANGED <<dir, files, fi, diag, apps, position, queue, down, ip, result>>

\* The range test off by one: > for >=.
DispatchOffByOne(event) ==
    IF app_index = Len(apps) - 1
    THEN IF event.pressed /\ event.key_number = GAME_KEY THEN "game" ELSE "poll_encoder"
    ELSE IF event.key_number > NumMacros(AppAt(app_index)) THEN "poll_encoder" ELSE "exec"

\* The game started by any press, the key number not tested.
DispatchAnyPress(event) ==
    IF app_index = Len(apps) - 1
    THEN IF event.pressed THEN "game" ELSE "poll_encoder"
    ELSE IF event.key_number >= NumMacros(AppAt(app_index)) THEN "poll_encoder" ELSE "exec"

\* Where the thread goes once the event is taken from the queue.
Dispatch(event) ==
    IF app_index = Len(apps) - 1
    THEN IF event.pressed /\ event.key_number = GAME_KEY THEN "game" ELSE "poll_encoder"
    ELSE IF event.key_number >= NumMacros(AppAt(app_index)) THEN "poll_encoder" ELSE "exec"

\* The newest event taken instead of the oldest.
PollKeysNewestFirst ==
    /\ pc = "poll_keys"
    /\ IF queue = <<>>
       THEN /\ pc' = "poll_encoder"
            /\ UNCHANGED <<queue, cur, ip, out>>
       ELSE /\ cur' = Some(queue[Len(queue)])
            /\ queue' = SubSeq(queue, 1, Len(queue) - 1)
            /\ out' = <<>>
            /\ ip' = 1
            /\ pc' = Dispatch(queue[Len(queue)])
    /\ UNCHANGED <<dir, files, fi, diag, apps, app_index, last_position, position,
                   down, host, disp, result, moved>>

\* event = macropad.keys.events.get() and the branch taken on it.
PollKeys ==
    /\ pc = "poll_keys"
    /\ IF queue = <<>>
       THEN /\ pc' = "poll_encoder"
            /\ UNCHANGED <<queue, cur, ip, out>>
       ELSE /\ cur' = Some(Head(queue))
            /\ queue' = Tail(queue)
            /\ out' = <<>>
            /\ ip' = 1
            /\ pc' = Dispatch(Head(queue))
    /\ UNCHANGED <<dir, files, fi, diag, apps, app_index, last_position, position,
                   down, host, disp, result, moved>>

\* The actions of one item on the edge of the event being processed.
ItemActions(item, pressed) == IF pressed THEN PressItem(item) ELSE ReleaseItem(item)

\* A delay taken as a point where the main loop goes on: the rest of the
\* sequence is given up and the encoder and the keys are polled.
ExecItemYieldsOnDelay ==
    /\ pc = "exec"
    /\ ip <= Len(SequenceOf(app_index, Val(cur).key_number))
    /\ LET item == SequenceOf(app_index, Val(cur).key_number)[ip]
           acts == ItemActions(item, Val(cur).pressed) IN
         /\ out' = out \o acts
         /\ host' = ApplyAll(host, acts)
         /\ pc' = IF item.t = "float" /\ Val(cur).pressed THEN "poll_encoder" ELSE pc
    /\ ip' = ip + 1
    /\ UNCHANGED <<dir, files, fi, diag, apps, app_index, last_position, position,
                   queue, down, cur, disp, result, moved>>

\* One turn of "for item in sequence".
ExecItem ==
    /\ pc = "exec"
    /\ ip <= Len(SequenceOf(app_index, Val(cur).key_number))
    /\ LET acts == ItemActions(SequenceOf(app_index, Val(cur).key_number)[ip], Val(cur).pressed) IN
         /\ out' = out \o acts
         /\ host' = ApplyAll(host, acts)
    /\ ip' = ip + 1
    /\ UNCHANGED <<pc, dir, files, fi, diag, apps, app_index, last_position, position,
                   queue, down, cur, disp, result, moved>>

\* The trailing release left out.
EndActionsNone(pressed) == <<>>

\* What follows the loop over the sequence.
EndActions(pressed) == IF pressed THEN <<>> ELSE ReleaseTail

\* The end of the loop over the sequence, and back to the top of the main loop.
ExecEnd ==
    /\ pc = "exec"
    /\ ip > Len(SequenceOf(app_index, Val(cur).key_number))
    /\ out' = out \o EndActions(Val(cur).pressed)
    /\ host' = ApplyAll(host, EndActions(Val(cur).pressed))
    /\ pc' = "poll_encoder"
    /\ UNCHANGED <<dir, files, fi, diag, apps, app_index, last_position, position,
                   queue, down, cur, ip, disp, result, moved>>

\* ------------------------------------------------- the game collaborator
\* dragondrop_game.run_game is not among the sources: it runs for as long as
\* it likes, draws on its own display group, may read key events, and returns.
GameOutcomes == {"game_ended", "quit"}

GameDraws ==
    /\ pc = "game"
    /\ disp.root = "menu"
    /\ disp' = [disp EXCEPT !.root = "game", !.rotation = 90]
    /\ UNCHANGED <<pc, dir, files, fi, diag, apps, app_index, last_position, position,
                   queue, down, cur, ip, out, host, result, moved>>

GameReadsKey ==
    /\ pc = "game"
    /\ queue # <<>>
    /\ queue' = Tail(queue)
    /\ UNCHANGED <<pc, dir, files, fi, diag, apps, app_index, last_position, position,
                   down, cur, ip, out, host, disp, result, moved>>

\* The restore without its refresh.
RestoreWithoutRefresh(r) ==
    IF r = "game_ended"
    THEN << <<"display.rotation", 0>>, <<"display.root_group", "menu">> >>
    ELSE <<>>

\* What the main loop does with the display when run_game returns r.
RestoreActions(r) ==
    IF r = "game_ended"
    THEN << <<"display.rotation", 0>>, <<"display.root_group", "menu">>,
            <<"display.refresh", 0>> >>
    ELSE <<>>

RestoreDisp(r, d) ==
    IF r = "game_ended" THEN [d EXCEPT !.rotation = 0, !.root = "menu"] ELSE d

\* The return from the game taken as a fresh start: the first profile selected
\* and the encoder position forgotten.
GameReturnReselects ==
    /\ pc = "game"
    /\ \E r \in GameOutcomes :
         /\ result' = r
         /\ out' = RestoreActions(r)
         /\ disp' = RestoreDisp(r, disp)
    /\ app_index' = 0
    /\ last_position' = None
    /\ pc' = "poll_encoder"
    /\ UNCHANGED <<dir, files, fi, diag, apps, position,
                   queue, down, cur, ip, host, moved>>

\* run_game returns and the main loop handles its result.
GameReturn ==
    /\ pc = "game"
    /\ \E r \in GameOutcomes :
         /\ result' = r
         /\ out' = RestoreActions(r)
         /\ disp' = RestoreDisp(r, disp)
    /\ pc' = "poll_encoder"
    /\ UNCHANGED <<dir, files, fi, diag, apps, app_index, last_position, position,
                   queue, down, cur, ip, host, moved>>

\* ------------------------------------------------------- the environment
\* The encoder and the keys are first read by the main loop, so input made
\* earlier is input made before the first poll.
\* The device is up, in the main loop or spinning in the halt loop.
Powered == Running \/ pc = "halted"

EncoderTurn ==
    /\ Powered
    /\ \E d \in {-1, 1} :
         /\ position + d \in -MaxPos..MaxPos
         /\ position' = position + d
    /\ moved' = IF pc = "game" /\ moved # "elsewhere" THEN "in_game" ELSE "elsewhere"
    /\ UNCHANGED <<pc, dir, files, fi, diag, apps, app_index, last_position,
                   queue, down, cur, ip, out, host, disp, result>>

KeyDown ==
    /\ Powered
    /\ Len(queue) < MaxQueue
    /\ \E k \in EventKeys \ down :
         /\ down' = down \cup {k}
         /\ queue' = Append(queue, [key_number |-> k, pressed |-> TRUE])
    /\ UNCHANGED <<pc, dir, files, fi, diag, apps, app_index, last_position, position,
                   cur, ip, out, host, disp, result, moved>>

KeyUp ==
    /\ Powered
    /\ Len(queue) < MaxQueue
    /\ \E k \in down :
         /\ down' = down \ {k}
         /\ queue' = Append(queue, [key_number |-> k, pressed |-> FALSE])
    /\ UNCHANGED <<pc, dir, files, fi, diag, apps, app_index, last_position, position,
                   cur, ip, out, host, disp, result, moved>>

Next ==
    \/ ListFiles
    \/ LoadFile
    \/ Halt
    \/ Startup
    \/ PollEncoder
    \/ PollKeys
    \/ ExecItem
    \/ ExecEnd
    \/ GameDraws
    \/ GameReadsKey
    \/ GameReturn
    \/ EncoderTurn
    \/ KeyDown
    \/ KeyUp

Spec == Init /\ [][Next]_vars

\* ================================================================ claims
\* The current mode of the state machine.
Mode == IF pc = "game" THEN "GameActive" ELSE IF Running THEN "MacroDispatch" ELSE "Startup"

\* The handler of a key event has finished: out holds all it emitted.
Handled == pc = "poll_encoder" /\ cur # None

OnGameProfile == app_index = Len(apps) - 1

\* The handler that finished ran the sequence of an in-range key of a macro profile.
Executed == Handled /\ ~OnGameProfile /\ Val(cur).key_number < NumMacros(AppAt(app_index))

CurSequence == SequenceOf(app_index, Val(cur).key_number)

RECURSIVE Only(_, _)
Only(acts, names) ==
    IF acts = <<>> THEN <<>>
    ELSE (IF Head(acts)[1] \in names THEN <<Head(acts)>> ELSE <<>>) \o Only(Tail(acts), names)

Count(acts, name) == Len(Only(acts, {name}))

\* C1: once an encoder position p has been observed, the current profile index
\* is p mod N, the number of 0..N-1 that differs from p by a multiple of the
\* registry size N, for negative p as for positive p.
C1_EncoderPositionModN ==
    last_position # None =>
        /\ app_index \in 0..(Len(apps) - 1)
        /\ \E q \in -(MaxPos + 1)..(MaxPos + 1) :
             Val(last_position) = q * Len(apps) + app_index

C1_Witness ==
    /\ last_position # None
    /\ Val(last_position) < 0
    /\ app_index = Len(apps) - 1
    /\ Len(apps) > 2

TapSequence == <<KeyCode(224), KeyCode(-224), TypeText("x")>>

TapPressActions ==
    << <<"keyboard.press", 224>>, <<"keyboard.release", 224>>, <<"keyboard_layout.write", "x">> >>

\* C2 as stated: the press edge of [KeyCode(CTRL), KeyCode(-CTRL), TypeText("x")]
\* emits press(CTRL), release(CTRL), writeText("x"), and its release edge
\* emits no release of CTRL.
C2_Original ==
    (Executed /\ CurSequence = TapSequence) =>
        IF Val(cur).pressed THEN out = TapPressActions
        ELSE Count(out, "keyboard.release") = 0

\* C2 as amended: the press edge emits press(CTRL), release(CTRL),
\* writeText("x"), and the release edge emits release(CTRL) once more, followed
\* by the release of the consumer-control code.
C2_TapReleasedOnBothEdges ==
    (Executed /\ CurSequence = TapSequence) =>
        IF Val(cur).pressed THEN out = TapPressActions
        ELSE out = << <<"keyboard.release", 224>>, <<"consumer_control.release", 0>> >>

C2_Witness ==
    /\ Executed
    /\ CurSequence = TapSequence
    /\ ~Val(cur).pressed
    /\ out # <<>>

\* The step that takes a key event whose key index is not below the binding
\* count of the active profile.
TakesOutOfRange ==
    /\ pc = "poll_keys"
    /\ pc' # "poll_keys"
    /\ queue # <<>>
    /\ Head(queue).key_number >= NumMacros(AppAt(app_index))

\* Nothing is emitted, nothing is started and the selection state is kept.
Dropped ==
    /\ pc' = "poll_encoder"
    /\ out' = <<>>
    /\ host' = host
    /\ app_index' = app_index
    /\ last_position' = last_position

\* C3 as stated: whatever the active profile, a key event whose key index is
\* at least the binding count of that profile emits nothing and leaves the
\* profile index, the mode and the last encoder position as they were.
C3_Original == [][TakesOutOfRange => Dropped]_vars

\* C3 as amended: the same, except for the press of GAME_KEY while the game
\* profile (which has no binding) is active, which starts the game.
C3_OutOfRangeDropped ==
    [][(TakesOutOfRange /\ ~(OnGameProfile /\ Head(queue).pressed
                             /\ Head(queue).key_number = GAME_KEY)) => Dropped]_vars

C3_Witness ==
    /\ Handled
    /\ ~OnGameProfile
    /\ Val(cur).key_number = NumMacros(AppAt(app_index))
    /\ out = <<>>

\* C4: when the game returns the ended outcome the machine is back in macro
\* dispatch with the profile index it had when the game started, and that
\* return restores the display surface once and refreshes the display once.
C4_GameEndedRestoresOnce ==
    [][(pc = "game" /\ pc' # "game" /\ result' = "game_ended") =>
          /\ pc' = "poll_encoder"
          /\ app_index' = app_index
          /\ last_position' = last_position
          /\ Count(out', "display.root_group") = 1
          /\ Count(out', "display.refresh") = 1
          /\ Count(out', "display.rotation") = 1
          /\ Len(out') = 3
          /\ disp'.root = "menu"
          /\ disp'.rotation = 0]_vars

C4_Witness ==
    /\ Handled
    /\ OnGameProfile
    /\ Val(cur) = [key_number |-> GAME_KEY, pressed |-> TRUE]
    /\ result = "game_ended"
    /\ Count(out, "display.refresh") = 1
    /\ disp.root = "menu"

\* C5 as stated: an encoder rotation made while the game runs is ignored, so
\* the poll that follows the game, with the encoder turned during the game
\* only, switches no profile and renders nothing.
C5_Original ==
    [][(pc = "poll_encoder" /\ pc' = "poll_keys" /\ moved = "in_game") =>
          /\ app_index' = app_index
          /\ last_position' = last_position
          /\ out' = <<>>]_vars

\* C6: the game is started only on a press of GAME_KEY taken while the game
\* profile (index N-1) is active; any other press and any release taken
\* while the game profile is active emits nothing and starts nothing.
C6_GameStartsOnlyOnGameKey ==
    /\ pc = "game" =>
         /\ OnGameProfile
         /\ cur = Some([key_number |-> GAME_KEY, pressed |-> TRUE])
    /\ (cur # None /\ OnGameProfile
          /\ Val(cur) # [key_number |-> GAME_KEY, pressed |-> TRUE]) =>
         /\ pc = "poll_encoder"
         /\ out = <<>>

C6_Witness ==
    /\ Handled
    /\ OnGameProfile
    /\ Val(cur).pressed
    /\ Val(cur).key_number # GAME_KEY

\* C7: the release edge of an in-range key of a macro profile emits the
\* release of the consumer-control code exactly once, as its last action,
\* whatever the sequence holds, an empty sequence included.
C7_ReleaseEndsWithReleaseMedia ==
    (Executed /\ ~Val(cur).pressed) =>
        /\ out # <<>>
        /\ out[Len(out)] = <<"consumer_control.release", 0>>
        /\ Count(out, "consumer_control.release") = 1

C7_Witness ==
    /\ Executed
    /\ ~Val(cur).pressed
    /\ CurSequence = <<>>
    /\ out = << <<"consumer_control.release", 0>> >>

\* What the claim expects of the keyboard for one item of a sequence.
KeyboardOfItem(item, pressed) ==
    IF item.t # "int" THEN <<>>
    ELSE IF pressed
         THEN IF item.v >= 0 THEN << <<"keyboard.press", item.v>> >>
              ELSE << <<"keyboard.release", -item.v>> >>
         ELSE IF item.v >= 0 THEN << <<"keyboard.release", item.v>> >> ELSE <<>>

RECURSIVE KeyboardOf(_, _)
KeyboardOf(seq, pressed) ==
    IF seq = <<>> THEN <<>>
    ELSE KeyboardOfItem(Head(seq), pressed) \o KeyboardOf(Tail(seq), pressed)

\* C8: the keyboard presses and releases of an edge are, in sequence order:
\* on the press edge press(c) for every KeyCode c >= 0 and release(-c) for
\* every KeyCode c < 0, on the release edge release(c) for every KeyCode c >= 0.
C8_KeyCodesPaired ==
    Executed =>
        Only(out, {"keyboard.press", "keyboard.release"})
            = KeyboardOf(CurSequence, Val(cur).pressed)

C8_Witness ==
    /\ Executed
    /\ ~Val(cur).pressed
    /\ Only(out, {"keyboard.release"}) = << <<"keyboard.release", 5>> >>
    /\ Len(CurSequence) > 1

\* What the claim expects of the codes of a MediaCodes instruction.
RECURSIVE MediaOf(_)
MediaOf(l) ==
    IF l = <<>> THEN <<>>
    ELSE (IF Head(l).t = "int"
          THEN << <<"consumer_control.release", 0>>, <<"consumer_control.press", Head(l).v>> >>
          ELSE << <<"time.sleep", Head(l).v>> >>) \o MediaOf(Tail(l))

RECURSIVE MediaOfAll(_)
MediaOfAll(seq) ==
    IF seq = <<>> THEN <<>> ELSE MediaOf(Head(seq).v) \o MediaOfAll(Tail(seq))

OnlyMediaCodes(seq) == seq # <<>> /\ \A i \in 1..Len(seq) : seq[i].t = "list"

\* C9: the press edge of a MediaCodes instruction emits, in list order, for
\* each integer the release of the consumer-control code followed by the
\* press of that integer and for each float a delay, so [7, 0.1, 8] gives
\* release, press(7), delay, release, press(8); the release edge emits for
\* it nothing but the one trailing release.
C9_MediaCodesRetrigger ==
    (Executed /\ OnlyMediaCodes(CurSequence)) =>
        /\ Val(cur).pressed => out = MediaOfAll(CurSequence)
        /\ ~Val(cur).pressed => out = << <<"consumer_control.release", 0>> >>
        /\ (Val(cur).pressed
              /\ CurSequence = <<MediaCodes(<<KeyCode(7), Delay(1), KeyCode(8)>>)>>) =>
             out = << <<"consumer_control.release", 0>>, <<"consumer_control.press", 7>>,
                      <<"time.sleep", 1>>,
                      <<"consumer_control.release", 0>>, <<"consumer_control.press", 8>> >>

C9_Witness ==
    /\ Executed
    /\ OnlyMediaCodes(CurSequence)
    /\ Val(cur).pressed
    /\ Len(out) = 5
    /\ host.media = 8

\* The profile sources of a listing: the files the loading loop reads.
RECURSIVE SourcesOf(_)
SourcesOf(fs) ==
    IF fs = <<>> THEN <<>>
    ELSE (IF FileTable[Head(fs)].py THEN <<Head(fs)>> ELSE <<>>) \o SourcesOf(Tail(fs))

RECURSIVE ValidOf(_, _)
ValidOf(fs, wanted) ==
    IF fs = <<>> THEN <<>>
    ELSE (IF FileTable[Head(fs)].wellformed = wanted THEN <<Head(fs)>> ELSE <<>>)
         \o ValidOf(Tail(fs), wanted)

\* The names of the profiles loaded from files.
LoadedNames ==
    LET n == IF pc = "halted" THEN Len(apps) ELSE Len(apps) - 1
    IN [i \in 1..n |-> apps[i].name]

KnownKinds == {"int", "float", "str", "list", "dict"}

\* C10 as stated: once loading is over the registry holds every valid profile
\* source in sorted order and no invalid one, one diagnostic was emitted for
\* each excluded source, and no instruction of an unknown kind reaches the
\* interpreter.
C10_Original ==
    /\ pc \notin {"list", "load"} =>
         /\ LoadedNames = [i \in 1..Len(ValidOf(SourcesOf(files), TRUE)) |->
                             FileTable[ValidOf(SourcesOf(files), TRUE)[i]].app.name]
         /\ diag = ValidOf(SourcesOf(files), FALSE)
    /\ (pc = "exec" /\ ip <= Len(CurSequence)) => CurSequence[ip].t \in KnownKinds

\* The sinks the host sees: keyboard, consumer control, mouse, tone, audio.
HostSinks ==
    {"keyboard.press", "keyboard.release", "keyboard.release_all", "keyboard_layout.write",
     "consumer_control.press", "consumer_control.release",
     "mouse.press", "mouse.release", "mouse.release_all", "mouse.move",
     "start_tone", "stop_tone", "play_file"}

\* No file of the folder gives a profile.
NothingLoads == \A f \in dir : ~(IsMacroFile(f) /\ Loads(f))

\* C11: when no profile loads the device halts for good with the message on
\* screen: the game profile is never appended, the main loop is never
\* entered, no encoder position or key event is ever taken and nothing is
\* ever sent to the host, whatever is done to the encoder and the keys.
C11_EmptyRegistryHalts ==
    /\ []((pc \notin {"list", "load"} /\ NothingLoads) => pc = "halted")
    /\ [](pc = "halted" =>
            /\ apps = <<>>
            /\ disp.title = "NO MACRO FILES FOUND"
            /\ Only(out, HostSinks) = <<>>
            /\ host = NoHost
            /\ cur = None
            /\ last_position = None)
    /\ [][pc = "halted" =>
            /\ pc' = "halted"
            /\ Len(queue') >= Len(queue)
            /\ UNCHANGED <<apps, app_index, last_position, cur, out, host, disp>>]_vars

C11_Witness ==
    /\ pc = "halted"
    /\ Len(queue) = MaxQueue
    /\ position # 0
    /\ files # <<>>

\* The profile the display was last rendered for.
Shown == AppAt(app_index)

\* C12: rendering a profile of b <= 12 bindings gives the slots 0..b-1 the
\* colour and label of their binding and clears the slots b..11 (colour 0,
\* empty label), so b slots are assigned and 12-b cleared; the banner is
\* filled when the profile name is non-empty and blank when it is empty.
C12_SwitchRendersProfile ==
    (Running /\ NumMacros(Shown) <= NumSlots) =>
        /\ \A i \in 0..(NumSlots - 1) :
             IF i < NumMacros(Shown)
             THEN /\ disp.pixels[i] = Shown.macros[i + 1][1]
                  /\ disp.labels[i] = Shown.macros[i + 1][2]
             ELSE /\ disp.pixels[i] = 0
                  /\ disp.labels[i] = ""
        /\ Cardinality({i \in 0..(NumSlots - 1) : i >= NumMacros(Shown)
                                                   /\ disp.pixels[i] = 0
                                                   /\ disp.labels[i] = ""})
             = NumSlots - NumMacros(Shown)
        /\ disp.title = Shown.name
        /\ disp.fill = (IF Shown.name = "" THEN 0 ELSE 16777215)

C12_Witness ==
    /\ Running
    /\ last_position # None
    /\ Shown.name = ""
    /\ disp.fill = 0
    /\ disp.labels[11] = "quiet"
    /\ disp.pixels[0] = 32

\* C13: the profile index and the last encoder position are changed by the
\* encoder step alone: taking and handling a key event, a press or a release
\* of any key under any profile, the run of the game and its return included,
\* leaves both as they were, and the registry is never changed once the main
\* loop runs.
C13_SelectionChangedByEncoderOnly ==
    /\ [][(pc \in {"poll_keys", "exec", "game"}) =>
            /\ app_index' = app_index
            /\ last_position' = last_position]_vars
    /\ [][Running => apps' = apps]_vars

C13_Witness ==
    /\ Handled
    /\ OnGameProfile
    /\ result = "quit"
    /\ Val(cur).pressed
    /\ position # Val(last_position)

MouseSinks == {"mouse.press", "mouse.release", "mouse.release_all", "mouse.move",
               "start_tone", "stop_tone", "play_file"}

\* What the claim expects of one MouseAction on the press edge: the button
\* action, then the move, then the tone (a start, which the code sends after
\* a stop of the tone that sounds, or a stop) or else the file.
MouseOf(d) ==
    (IF "buttons" \notin DOMAIN d THEN <<>>
     ELSE IF d.buttons >= 0 THEN << <<"mouse.press", d.buttons>> >>
     ELSE << <<"mouse.release", -d.buttons>> >>)
    \o << <<"mouse.move", <<IF "x" \in DOMAIN d THEN d.x ELSE 0,
                            IF "y" \in DOMAIN d THEN d.y ELSE 0,
                            IF "wheel" \in DOMAIN d THEN d.wheel ELSE 0>> >> >>
    \o (IF "tone" \in DOMAIN d
        THEN IF d.tone > 0 THEN << <<"stop_tone", 0>>, <<"start_tone", d.tone>> >>
             ELSE << <<"stop_tone", 0>> >>
        ELSE IF "play" \in DOMAIN d THEN << <<"play_file", d.play>> >>
        ELSE <<>>)

RECURSIVE MouseOfAll(_)
MouseOfAll(seq) ==
    IF seq = <<>> THEN <<>>
    ELSE (IF Head(seq).t = "dict" THEN MouseOf(Head(seq).v) ELSE <<>>) \o MouseOfAll(Tail(seq))

NumDicts(seq) == Cardinality({i \in 1..Len(seq) : seq[i].t = "dict"})
NumTonePlay(seq) ==
    Cardinality({i \in 1..Len(seq) : seq[i].t = "dict" /\ "tone" \in DOMAIN seq[i].v
                                      /\ "play" \in DOMAIN seq[i].v})

\* C14: on the press edge each MouseAction gives, in this order, its button
\* action (press of buttons >= 0, release of -buttons < 0, none when absent),
\* one move with absent fields 0, and its tone (start when tone > 0, stop
\* otherwise) or, only when it has no tone, its file; a MouseAction that has
\* both a tone and a file plays no file.
C14_MouseActionAsOneUnit ==
    (Executed /\ Val(cur).pressed) =>
        /\ Only(out, MouseSinks) = MouseOfAll(CurSequence)
        /\ Count(out, "mouse.move") = NumDicts(CurSequence)
        /\ (NumDicts(CurSequence) = 1 /\ NumTonePlay(CurSequence) = 1) =>
             Count(out, "play_file") = 0

C14_Witness ==
    /\ Executed
    /\ Val(cur).pressed
    /\ NumTonePlay(CurSequence) = 1
    /\ out = << <<"mouse.release", 1>>, <<"mouse.move", <<0, 0, 1>> >>, <<"stop_tone", 0>> >>

\* What the claim expects of one item on the release edge.
ReleaseOfItem(item) ==
    IF item.t = "int" /\ item.v >= 0 THEN << <<"keyboard.release", item.v>> >>
    ELSE IF item.t = "dict" /\ "buttons" \in DOMAIN item.v /\ item.v.buttons >= 0
         THEN << <<"mouse.release", item.v.buttons>> >>
    ELSE <<>>

RECURSIVE ReleaseOf(_)
ReleaseOf(seq) ==
    IF seq = <<>> THEN <<>> ELSE ReleaseOfItem(Head(seq)) \o ReleaseOf(Tail(seq))

\* C15: on the release edge only a KeyCode c >= 0 (release of c) and a
\* MouseAction with buttons >= 0 (release of the buttons) act, in sequence
\* order, followed by the release of the consumer-control code: no press, no
\* delay, no text, no consumer-control press, no move, no tone start or stop
\* and no file is ever sent on a release edge.
C15_ReleaseEdgeOnlyReleases ==
    /\ (pc = "exec" /\ ~Val(cur).pressed) =>
         \A i \in 1..Len(out) : out[i][1] \in {"keyboard.release", "mouse.release"}
    /\ (Executed /\ ~Val(cur).pressed) =>
         out = ReleaseOf(CurSequence) \o << <<"consumer_control.release", 0>> >>

C15_Witness ==
    /\ Executed
    /\ ~Val(cur).pressed
    /\ host.tone = 440
    /\ out = << <<"mouse.release", 1>>, <<"keyboard.release", 5>>,
                <<"consumer_control.release", 0>> >>

\* The delays of a sequence on the press edge: its floats and those of its lists.
RECURSIVE NumDelays(_)
NumDelays(seq) ==
    IF seq = <<>> THEN 0
    ELSE (IF Head(seq).t = "float" THEN 1
          ELSE IF Head(seq).t = "list" THEN NumDelays(Head(seq).v)
          ELSE 0) + NumDelays(Tail(seq))

\* C16: a sequence that has started runs to its end, delays included, before
\* the encoder or the keys are polled again: while it runs no event is taken
\* from the queue, the profile index and the last encoder position are kept,
\* the actions emitted are those of this sequence alone, added in order, and
\* the run is left only past the last item.
C16_SequenceRunsToCompletion ==
    /\ [][pc = "exec" =>
            /\ pc' \in {"exec", "poll_encoder"}
            /\ pc' = "poll_encoder" => ip > Len(SequenceOf(app_index, Val(cur).key_number))
            /\ cur' = cur
            /\ app_index' = app_index
            /\ last_position' = last_position
            /\ Len(queue') >= Len(queue)
            /\ Len(out') >= Len(out)
            /\ SubSeq(out', 1, Len(out)) = out]_vars
    /\ []((Executed /\ Val(cur).pressed) =>
            Count(out, "time.sleep") = NumDelays(CurSequence))

C16_Witness ==
    /\ pc = "exec"
    /\ Val(cur).pressed
    /\ ip = 3
    /\ Count(out, "time.sleep") = 1
    /\ Len(queue) = MaxQueue
    /\ Some(position) # last_position

\* C17: when a profile loads, startup ends in macro dispatch with profile 0
\* selected and rendered and no key event taken yet, and as long as the only
\* encoder position observed is the one the encoder starts at, key events
\* are dispatched against the bindings of profile 0.
C17_StartupSelectsProfileZero ==
    /\ []((pc \notin {"list", "load"} /\ ~NothingLoads) => Running)
    /\ []((Running /\ last_position = None) =>
            /\ pc = "poll_encoder"
            /\ Mode = "MacroDispatch"
            /\ app_index = 0
            /\ cur = None
            /\ disp.title = apps[1].name
            /\ disp.labels = [i \in 0..(NumSlots - 1) |->
                                IF i < Len(apps[1].macros) THEN apps[1].macros[i + 1][2] ELSE ""])
    /\ []((Running /\ cur # None /\ last_position = Some(0)) =>
            /\ app_index = 0
            /\ pc = "exec" => Val(cur).key_number < Len(apps[1].macros)
            /\ Executed => Len(out) >= Len(KeyboardOf(apps[1].macros[Val(cur).key_number + 1][3],
                                                      Val(cur).pressed)))

C17_Witness ==
    /\ Executed
    /\ last_position = Some(0)
    /\ Val(cur).pressed
    /\ apps[1].name = "Keys"
    /\ out = TapPressActions

\* A step that renders a profile: the startup, or an encoder poll that finds
\* a position other than the last one.
Switches ==
    \/ pc = "load" /\ pc' = "poll_encoder"
    \/ pc = "poll_encoder" /\ pc' = "poll_keys" /\ last_position' # last_position

\* C18: every render of a profile, at startup and on every observed encoder
\* change, one that maps to the index already selected included, releases
\* all keyboard codes, the consumer-control code and all mouse buttons and
\* stops the tone: right after it the host sees nothing held, whatever was
\* held before.
C18_SwitchReleasesEverything ==
    [][Switches =>
          /\ host' = [keys |-> {}, media |-> 0, buttons |-> {}, tone |-> 0]
          /\ Count(out', "keyboard.release_all") = 1
          /\ Count(out', "consumer_control.release") = 1
          /\ Count(out', "mouse.release_all") = 1
          /\ Count(out', "stop_tone") = 1
          /\ Count(out', "display.refresh") = 1]_vars

\* An encoder change is pending while a key, a button and a tone are held.
C18_Witness ==
    /\ pc = "poll_encoder"
    /\ Some(position) # last_position
    /\ host.keys = {5}
    /\ host.buttons = {1}
    /\ host.tone = 440

\* All keys are up, no key event waits and none is in the middle of its
\* sequence: every event the keys produced has been handled to its end.
Quiet == Running /\ down = {} /\ queue = <<>> /\ pc # "exec"

\* C19: with every key up and every key event handled, the host sees no
\* keyboard code, no consumer-control code and no mouse button held,
\* however the presses and releases were interleaved with encoder turns and
\* runs of the game, a key pressed under one profile and released under
\* another included.
C19_NoStuckInputs ==
    Quiet => (host.keys = {} /\ host.media = 0 /\ host.buttons = {})

C19_Witness ==
    /\ Quiet
    /\ Executed
    /\ ~Val(cur).pressed
    /\ Count(out, "mouse.release") = 1
    /\ Count(out, "keyboard.release") = 1
    /\ host.keys = {}
    /\ host.buttons = {}

\* The profile index the last encoder poll selected.
Selected == CHOOSE r \in 0..(Len(apps) - 1) :
                \E q \in -(MaxPos + 1)..(MaxPos + 1) : Val(last_position) = q * Len(apps) + r

\* Where the claim sends an event taken under the profile of index i.
BranchOf(e, i) ==
    IF i = Len(apps) - 1
    THEN IF e.pressed /\ e.key_number = GAME_KEY THEN "game" ELSE "poll_encoder"
    ELSE IF e.key_number < Len(apps[i + 1].macros) THEN "exec" ELSE "poll_encoder"

\* C20: every iteration checks the encoder first and the key queue second and
\* takes at most one key event, the oldest; the event is dispatched against
\* the profile the encoder check of that iteration left selected (its
\* bindings, or the game branch), whatever profile was active when the key
\* was pressed.
C20_EncoderBeforeKeysFifo ==
    /\ [][(pc' = "poll_keys" /\ pc # "poll_keys") =>
            /\ pc = "poll_encoder"
            /\ last_position' = Some(position)
            /\ queue' = queue]_vars
    /\ [][(pc = "poll_keys" /\ pc' # "poll_keys") =>
            /\ last_position # None
            /\ IF queue = <<>>
               THEN pc' = "poll_encoder" /\ queue' = queue /\ cur' = cur
               ELSE /\ cur' = Some(Head(queue))
                    /\ queue' = Tail(queue)
                    /\ pc' = BranchOf(Head(queue), Selected)]_vars
    /\ [][(Len(queue') < Len(queue)) =>
            /\ pc \in {"poll_keys", "game"}
            /\ queue' = Tail(queue)]_vars

\* The second of two waiting events still waits while the first starts its
\* sequence under a profile the encoder selected.
C20_Witness ==
    /\ pc = "exec"
    /\ ip = 1
    /\ Val(cur) = [key_number |-> 0, pressed |-> TRUE]
    /\ queue = <<[key_number |-> 0, pressed |-> FALSE]>>
    /\ app_index = 1
    /\ Len(apps) > 2

====
